---------------------------- MODULE Spec2Model ----------------------------
(***************************************************************************)
(* Model of the ImageArena component (src/src/components/arena/            *)
(* ImageArena.tsx): filename parsing, the image catalog, pair matching,    *)
(* the config / playing / results state machine with its delayed           *)
(* round-advance timers, and the result export.                            *)
(*                                                                         *)
(* The source file holds two revisions of the component.  The first        *)
(* (lines 1-569) auto-loads the public folder, votes left/right with a     *)
(* 300 ms round-advance timer and an arrow-key handler; the second         *)
(* (lines 571-999) has a rounds cap, tie / both-bad votes and advances     *)
(* synchronously.  The variable "variant" says which one is mounted:       *)
(* "timer" for the first, "cap" for the second.                            *)
(*                                                                         *)
(* JavaScript strings are sequences of one-character strings.  The value   *)
(* undefined, where a string is expected, is the one-element sequence      *)
(* <<"undefined">>, which no JavaScript string of the model equals.        *)
(***************************************************************************)
EXTENDS Integers, Sequences, FiniteSets, TLC

(***************************************************************************)
(* Strings                                                                 *)
(***************************************************************************)
Undefined == <<"undefined">>

Digits == {"0", "1", "2", "3", "4", "5", "6", "7", "8", "9"}

\* \s of the regular expressions: the model's only whitespace is the blank
Whitespace == {" "}

\* the character class [\-_.\s]
SepClass == {"-", "_", "."} \cup Whitespace

UpperCase == <<"A", "B", "C", "D", "E", "F", "G", "H", "I", "J", "K", "L", "M",
               "N", "O", "P", "Q", "R", "S", "T", "U", "V", "W", "X", "Y", "Z">>

LowerCase == <<"a", "b", "c", "d", "e", "f", "g", "h", "i", "j", "k", "l", "m",
               "n", "o", "p", "q", "r", "s", "t", "u", "v", "w", "x", "y", "z">>

\* String.prototype.toLowerCase, on one character
Lower(c) ==
  IF \E i \in 1..Len(UpperCase) : UpperCase[i] = c
  THEN LowerCase[CHOOSE i \in 1..Len(UpperCase) : UpperCase[i] = c]
  ELSE c

toLowerCase(s) == [i \in 1..Len(s) |-> Lower(s[i])]

\* String.prototype.slice(from) and slice(from, to), 0-based as in JavaScript
SliceFrom(s, from) == SubSeq(s, from + 1, Len(s))

Slice(s, from, to) == SubSeq(s, from + 1, to)

\* String.prototype.indexOf for a one-character needle: 0-based, -1 if absent
indexOf(s, c) ==
  IF \E i \in 1..Len(s) : s[i] = c
  THEN (CHOOSE i \in 1..Len(s) : s[i] = c /\ \A j \in 1..(i - 1) : s[j] # c) - 1
  ELSE -1

\* String.prototype.startsWith
startsWith(s, p) == Len(p) <= Len(s) /\ SubSeq(s, 1, Len(p)) = p

\* s.replace(/^[\-_.\s]+/, "")
RECURSIVE StripLeadingSeps(_)
StripLeadingSeps(s) ==
  IF s # <<>> /\ Head(s) \in SepClass THEN StripLeadingSeps(Tail(s)) ELSE s

RECURSIVE TrimStart(_)
TrimStart(s) ==
  IF s # <<>> /\ Head(s) \in Whitespace THEN TrimStart(Tail(s)) ELSE s

RECURSIVE TrimEnd(_)
TrimEnd(s) ==
  IF s # <<>> /\ s[Len(s)] \in Whitespace
  THEN TrimEnd(SubSeq(s, 1, Len(s) - 1))
  ELSE s

\* String.prototype.trim
Trim(s) == TrimEnd(TrimStart(s))

\* /^\d+$/.test(s)
IsDigits(s) == s # <<>> /\ \A i \in 1..Len(s) : s[i] \in Digits

\* s.replace(/^0+/, "")
RECURSIVE StripLeadingZeros(_)
StripLeadingZeros(s) ==
  IF s # <<>> /\ Head(s) = "0" THEN StripLeadingZeros(Tail(s)) ELSE s

\* filename.replace(/\.[^/.]+$/, ""): drop a final ".ext" whose ext is one or
\* more characters other than "/" and "."
StripExtension(s) ==
  LET dots == {i \in 1..Len(s) : s[i] = "."}
  IN  IF dots = {} THEN s
      ELSE LET k == CHOOSE i \in dots : \A j \in dots : j <= i
           IN  IF k < Len(s) /\ \A j \in (k + 1)..Len(s) : s[j] # "/"
               THEN SubSeq(s, 1, k - 1)
               ELSE s

(***************************************************************************)
(* Identifier normalizer and filename parser (first revision)              *)
(***************************************************************************)
\* a normalizer that strips one leading separator only
normalizeOneSeparator(id) ==
  IF id # <<>> /\ Head(id) \in SepClass THEN Tail(id) ELSE id

\* a normalizer that keeps the leading zeros of a number
normalizeKeepZeros(id) ==
  IF id = <<>> THEN <<>> ELSE StripLeadingSeps(Trim(id))

normalizeId(id) ==
  IF id = <<>> THEN <<>>
  ELSE LET trimmed == Trim(id)
           cleaned == StripLeadingSeps(trimmed)
       IN  IF IsDigits(cleaned)
           THEN LET noLeading == StripLeadingZeros(cleaned)
                IN  IF noLeading = <<>> THEN <<"0">> ELSE noLeading
           ELSE cleaned

\* [idxUnd, idxDash].filter(i => i >= 0).sort((a, b) => a - b)[0], or -1
FirstSeparator(base) ==
  LET idxUnd == indexOf(base, "_")
      idxDash == indexOf(base, "-")
  IN  IF idxUnd >= 0 /\ idxDash >= 0
      THEN (IF idxUnd <= idxDash THEN idxUnd ELSE idxDash)
      ELSE IF idxUnd >= 0 THEN idxUnd
      ELSE IF idxDash >= 0 THEN idxDash
      ELSE -1

ModelLabel == <<"m", "o", "d", "e", "l">>

\* a parser that puts every separator-less name under the label "model"
parseModelPrefixBucket(filename) ==
  LET base == StripExtension(filename)
      idx == FirstSeparator(base)
  IN  IF idx >= 0
      THEN (IF Slice(base, 0, idx) # <<>> THEN Slice(base, 0, idx) ELSE ModelLabel)
      ELSE ModelLabel

parseModelPrefix(filename) ==
  LET base == StripExtension(filename)
      idx == FirstSeparator(base)
  IN  IF idx >= 0
      THEN (IF Slice(base, 0, idx) # <<>> THEN Slice(base, 0, idx) ELSE ModelLabel)
      ELSE (IF base # <<>> THEN base ELSE ModelLabel)

\* the residual of parseIdSuffix before normalisation
IdResidual(filename, modelPrefix) ==
  LET base == StripExtension(filename)
      rest0 ==
        IF modelPrefix # <<>> /\ startsWith(toLowerCase(base), toLowerCase(modelPrefix))
        THEN SliceFrom(base, Len(modelPrefix))
        ELSE LET idx == FirstSeparator(base)
             IN  IF idx >= 0 THEN SliceFrom(base, idx + 1) ELSE base
      rest == StripLeadingSeps(rest0)
  IN  IF rest # <<>> THEN rest ELSE base

parseIdSuffix(filename, modelPrefix) == normalizeId(IdResidual(filename, modelPrefix))

(***************************************************************************)
(* Filename parser of the second revision: no normalisation of the id, and *)
(* the model is the first part of whichever split, by "_" or by "-", has   *)
(* no more parts than the other.                                           *)
(***************************************************************************)
\* base.split(c).length
SplitLength(base, c) == Cardinality({i \in 1..Len(base) : base[i] = c}) + 1

\* base.split(c)[0]
SplitFirst(base, c) ==
  IF indexOf(base, c) >= 0 THEN Slice(base, 0, indexOf(base, c)) ELSE base

parseModelPrefixCap(filename) ==
  LET base == StripExtension(filename)
      pick0 == IF SplitLength(base, "_") <= SplitLength(base, "-")
               THEN SplitFirst(base, "_")
               ELSE SplitFirst(base, "-")
  IN  IF pick0 # <<>> THEN pick0 ELSE ModelLabel

parseIdSuffixCap(filename, modelPrefix) == IdResidual(filename, modelPrefix)

(***************************************************************************)
(* Images and the catalog                                                  *)
(***************************************************************************)
\* withBase(`images/${name}`): one locator per public file name
PublicUrl(name) == <<"images", name, 0>>

\* URL.createObjectURL(f): a fresh locator at every call
BlobUrl(n) == <<"blob", <<>>, n>>

\* model and id as onFileChange / loadFromPublicFolder parse them from a name
ParseName(v, name) ==
  LET model == IF v = "timer" THEN parseModelPrefix(name) ELSE parseModelPrefixCap(name)
      id == IF v = "timer" THEN parseIdSuffix(name, model) ELSE parseIdSuffixCap(name, model)
  IN  [model |-> model, id |-> id]

\* a merge that keeps every incoming entry
mergeKeepAll(existing, incoming) == existing \o incoming

RECURSIVE mergeUniqueByUrl(_, _)
mergeUniqueByUrl(existing, incoming) ==
  IF incoming = <<>> THEN existing
  ELSE IF \E i \in 1..Len(existing) : existing[i].url = Head(incoming).url
       THEN mergeUniqueByUrl(existing, Tail(incoming))
       ELSE mergeUniqueByUrl(Append(existing, Head(incoming)), Tail(incoming))

\* Array.from(new Set(xs)): the distinct elements in order of first occurrence
RECURSIVE Distinct(_)
Distinct(xs) ==
  IF xs = <<>> THEN <<>>
  ELSE LET front == Distinct(SubSeq(xs, 1, Len(xs) - 1))
           last == xs[Len(xs)]
       IN  IF \E i \in 1..Len(front) : front[i] = last THEN front ELSE Append(front, last)

\* a detection that takes the two labels met last
modelsMetLast(imgs) ==
  LET all == Distinct([i \in 1..Len(imgs) |-> imgs[i].model])
  IN  SubSeq(all, IF Len(all) < 2 THEN 1 ELSE Len(all) - 1, Len(all))

\* the models memo: the first two distinct model labels of the catalog
models(imgs) ==
  LET all == Distinct([i \in 1..Len(imgs) |-> imgs[i].model])
  IN  SubSeq(all, 1, IF Len(all) < 2 THEN Len(all) ELSE 2)

(***************************************************************************)
(* Pair matching                                                           *)
(***************************************************************************)
\* Own keys of map1 / map2 in startArena: the ids of the images of model m
MapKeys(imgs, m) == {imgs[i].id : i \in {j \in 1..Len(imgs) : imgs[j].model = m}}

\* map[id] for an own key: a later image of the same id overwrites an earlier one
MapGet(imgs, m, id) ==
  imgs[CHOOSE i \in 1..Len(imgs) :
         /\ imgs[i].model = m /\ imgs[i].id = id
         /\ \A j \in 1..Len(imgs) : (imgs[j].model = m /\ imgs[j].id = id) => j <= i]

\* Property names every plain object ({}) inherits from Object.prototype;
\* map[name] is then a function (truthy) although the map has no such own key.
ObjectPrototypeKeys ==
  { <<"v", "a", "l", "u", "e", "O", "f">>,
    <<"t", "o", "S", "t", "r", "i", "n", "g">>,
    <<"c", "o", "n", "s", "t", "r", "u", "c", "t", "o", "r">> }

\* what map[id] evaluates to for an inherited name: a function object, whose
\* only field of a LoadedImage is name (Function.prototype.name)
InheritedFunction(key) ==
  [url |-> Undefined, model |-> Undefined, name |-> key, id |-> Undefined,
   source |-> "undefined"]

\* map[id], for any id that is an own key or truthy by inheritance
MapLookup(imgs, m, id) ==
  IF id \in MapKeys(imgs, m) THEN MapGet(imgs, m, id) ELSE InheritedFunction(id)

\* whether map[id] is truthy
MapHas(imgs, m, id) == id \in MapKeys(imgs, m) \/ id \in ObjectPrototypeKeys

\* Object.keys order: array-index keys ("0", "7", "12") ascending, then the
\* other keys in order of insertion
IsArrayIndex(k) == IsDigits(k) /\ (k = <<"0">> \/ k[1] # "0")

DigitValue(c) == CHOOSE n \in 0..9 : <<"0", "1", "2", "3", "4", "5", "6", "7", "8", "9">>[n + 1] = c

NumLess(a, b) ==
  \/ Len(a) < Len(b)
  \/ /\ Len(a) = Len(b)
     /\ \E i \in 1..Len(a) :
          /\ DigitValue(a[i]) < DigitValue(b[i])
          /\ \A j \in 1..(i - 1) : a[j] = b[j]

RECURSIVE SortNumeric(_)
SortNumeric(ks) ==
  IF ks = {} THEN <<>>
  ELSE LET least == CHOOSE k \in ks : \A o \in ks \ {k} : NumLess(k, o)
       IN  <<least>> \o SortNumeric(ks \ {least})

ObjectKeys(imgs, m) ==
  LET mine == SelectSeq(imgs, LAMBDA img : img.model = m)
      inserted == Distinct([i \in 1..Len(mine) |-> mine[i].id])
  IN  SortNumeric({inserted[i] : i \in {j \in 1..Len(inserted) : IsArrayIndex(inserted[j])}})
        \o SelectSeq(inserted, LAMBDA k : ~IsArrayIndex(k))

\* Object.keys(map1).filter((id) => map2[id])
commonIds(imgs, m1, m2) == SelectSeq(ObjectKeys(imgs, m1), LAMBDA id : MapHas(imgs, m2, id))

\* [a[i], a[j]] = [a[j], a[i]], 0-based
Swap(a, i, j) == [a EXCEPT ![i + 1] = a[j + 1], ![j + 1] = a[i + 1]]

\* a shuffle whose j is drawn from 0..i-1: no element stays where it was
RECURSIVE SwapDownFrom(_, _)
SwapDownFrom(a, i) ==
  IF i <= 0 THEN {a}
  ELSE UNION {SwapDownFrom(Swap(a, i, j), i - 1) : j \in 0..(i - 1)}

shuffleNeverInPlace(items) == SwapDownFrom(items, Len(items) - 1)

\* the loop of shuffleArray from index i down to 1: every sequence it can
\* return, j = Math.floor(Math.random() * (i + 1)) being any of 0..i
RECURSIVE FisherYates(_, _)
FisherYates(a, i) ==
  IF i <= 0 THEN {a}
  ELSE UNION {FisherYates(Swap(a, i, j), i - 1) : j \in 0..i}

shuffleArray(items) == FisherYates(items, Len(items) - 1)

\* commonIds.sort(() => Math.random() - 0.5): the comparator is inconsistent,
\* so the order is any permutation of the elements
sortRandom(items) ==
  {p \in [1..Len(items) -> {items[i] : i \in 1..Len(items)}] :
     \A i \in 1..Len(items) : \E j \in 1..Len(items) : p[j] = items[i]}

\* Math.min(rounds, order.length)
Min(a, b) == IF a <= b THEN a ELSE b

\* one pair of startArena: flip is Math.random() >= 0.5
MakePair(a, b, flip) ==
  IF flip THEN [left |-> b, right |-> a] ELSE [left |-> a, right |-> b]

\* the pair lists startArena can build from the order and the coin flips
newPairs(imgs, m1, m2, order, flips) ==
  [k \in 1..Len(order) |->
     MakePair(MapLookup(imgs, m1, order[k]), MapLookup(imgs, m2, order[k]), flips[k])]

(***************************************************************************)
(* The environment: the files of the public folder and the files a user    *)
(* may pick.  In the second revision a name splits into model and id only  *)
(* when it holds both separators, hence the "_-" names.                    *)
(***************************************************************************)
\* bounds of the model
MaxBlobs == 2

MaxTimers == 2

MaxLoads == 1

\* public/images as the manifest lists it
PublicNames(v) ==
  IF v = "timer"
  THEN << <<"a", "_", "0", "1", ".", "p">>, <<"b", "_", "1", ".", "p">> >>
  ELSE << <<"a", "_", "-", "1", ".", "p">>, <<"b", "_", "-", "1", ".", "p">> >>

\* the FileLists a user may select: each file has a name and a MIME type
\* that is an image type or not
ImageFile(name) == [name |-> name, image |-> TRUE]

UploadBatches(v) ==
  IF v = "timer"
  THEN { <<ImageFile(<<"a", "_", "2", ".", "p">>), ImageFile(<<"b", "_", "2", ".", "p">>)>>,
         <<ImageFile(<<"c", "_", "1", ".", "p">>), ImageFile(<<"a", "-", "1", ".", "p">>)>>,
         <<ImageFile(<<"a", "_", "v", "a", "l", "u", "e", "O", "f", ".", "p">>),
           ImageFile(<<"b", "_", "3", ".", "p">>)>>,
         <<[name |-> <<"n", ".", "t">>, image |-> FALSE]>> }
  ELSE { <<ImageFile(<<"a", "_", "-", "2", ".", "p">>),
           ImageFile(<<"b", "_", "-", "2", ".", "p">>)>>,
         <<ImageFile(<<"c", "_", "-", "1", ".", "p">>)>>,
         <<[name |-> <<"n", ".", "t">>, image |-> FALSE]>> }

\* every file name of the environment
AllNames(v) ==
  {PublicNames(v)[i] : i \in 1..Len(PublicNames(v))}
    \cup UNION {{files[i].name : i \in 1..Len(files)} : files \in UploadBatches(v)}

\* ParseName over the names of the environment
Parsed == [v \in {"timer", "cap"} |-> [name \in AllNames(v) |-> ParseName(v, name)]]

\* the LoadedImage built by onFileChange / loadFromPublicFolder
LoadedImage(v, name, url, source) ==
  [url |-> url, model |-> Parsed[v][name].model, name |-> name,
   id |-> Parsed[v][name].id, source |-> source]

\* defaultRounds
DefaultRounds == 20

\* values typed into the rounds input (second revision)
RoundsChoices == {1, DefaultRounds}

(***************************************************************************)
(* State                                                                   *)
(***************************************************************************)
VARIABLES
  variant,      \* "timer": first revision, "cap": second revision
  images,       \* useState images: the catalog
  phase,        \* "config" | "playing" | "results"
  current,      \* useState current: the cursor
  pairs,        \* useState pairs
  votes,        \* votesRef.current
  justVoted,    \* "null" | "left" | "right" (first revision)
  timers,       \* pending window.setTimeout callbacks, oldest first, each with
                \* the values its closure captured
  loads,        \* loadFromPublicFolder calls whose fetch has not resolved
  rounds,       \* useState rounds
  nextBlob,     \* number of URL.createObjectURL calls so far
  toast,        \* the toast the last event showed, "none" if it showed none
  sink,         \* the payloads given to downloadJSON since the last
                \* successful startArena
  arg,          \* the argument of the last direct call of a pure function
                \* (ParserSpec, CatalogSpec); never written by the component
  ret           \* what that call returned

vars == <<variant, images, phase, current, pairs, votes, justVoted, timers,
          loads, rounds, nextBlob, toast, sink, arg, ret>>

Null == <<"null">>

\* ret when no pure function has been called directly
NoCall == [fn |-> "none", value |-> <<>>]

TieMarker == <<"t", "i", "e">>

\* JavaScript truthiness of a winnerModel
Truthy(x) == x # Null /\ x # Undefined /\ x # <<>>

Init ==
  /\ variant \in {"timer", "cap"}
  /\ images = <<>>
  /\ phase = "config"
  /\ current = 0
  /\ pairs = <<>>
  /\ votes = <<>>
  /\ justVoted = "null"
  /\ timers = <<>>
  /\ loads = IF variant = "timer" THEN 1 ELSE 0
  /\ rounds = DefaultRounds
  /\ nextBlob = 0
  /\ toast = "none"
  /\ sink = <<>>
  /\ arg = <<>>
  /\ ret = NoCall

(***************************************************************************)
(* Catalog events                                                          *)
(***************************************************************************)
\* "Load all from /images" (second revision): the call starts a fetch
LoadClick ==
  /\ variant = "cap"
  /\ phase = "config"
  /\ loads < MaxLoads
  /\ loads' = loads + 1
  /\ toast' = "none"
  /\ UNCHANGED <<arg, ret, variant, images, phase, current, pairs, votes,
                 justVoted, timers, rounds, nextBlob, sink>>

\* the images loadFromPublicFolder builds from the names it found
publicImgs(v, names) ==
  [i \in 1..Len(names) |-> LoadedImage(v, names[i], PublicUrl(names[i]), "public")]

\* the name orders loadFromPublicFolder maps over: shuffled in the first
\* revision, as listed in the second
LoadOrders(v, names) == IF v = "timer" THEN shuffleArray(names) ELSE {names}

\* a fetch rejects: loadFromPublicFolder rethrows, the caller drops the error
LoadFails ==
  /\ loads > 0
  /\ loads' = loads - 1
  /\ toast' = "none"
  /\ UNCHANGED <<arg, ret, variant, images, phase, current, pairs, votes,
                 justVoted, timers, rounds, nextBlob, sink>>

\* neither the manifest nor the listing names an image
LoadFindsNothing ==
  /\ loads > 0
  /\ loads' = loads - 1
  /\ toast' = "error: no images found"
  /\ UNCHANGED <<arg, ret, variant, images, phase, current, pairs, votes, justVoted, timers,
                 rounds, nextBlob, sink>>

\* setImages((prev) => mergeUniqueByUrl(prev, publicImgs)): applied whatever
\* the phase is when the fetch resolves
LoadSucceeds ==
  /\ loads > 0
  /\ \E names \in LoadOrders(variant, PublicNames(variant)) :
       images' = mergeUniqueByUrl(images, publicImgs(variant, names))
  /\ loads' = loads - 1
  /\ toast' = "success: loaded public images"
  /\ UNCHANGED <<arg, ret, variant, phase, current, pairs, votes, justVoted, timers,
                 rounds, nextBlob, sink>>

\* the images onFileChange builds: non-image files are skipped, and each
\* image file gets a fresh object URL
RECURSIVE uploadImgs(_, _, _)
uploadImgs(v, files, n) ==
  IF files = <<>> THEN <<>>
  ELSE IF ~Head(files).image THEN uploadImgs(v, Tail(files), n)
  ELSE <<LoadedImage(v, Head(files).name, BlobUrl(n + 1), "upload")>>
         \o uploadImgs(v, Tail(files), n + 1)

\* onFileChange: the file input is rendered in the config phase only
OnFileChange ==
  /\ phase = "config"
  /\ \E files \in UploadBatches(variant) :
       LET imgs == uploadImgs(variant, files, nextBlob)
       IN  /\ nextBlob + Len(imgs) <= MaxBlobs
           /\ nextBlob' = nextBlob + Len(imgs)
           /\ IF imgs = <<>>
              THEN /\ toast' = "error: select image files"
                   /\ images' = images
              ELSE /\ toast' = "success: added images"
                   /\ images' = mergeUniqueByUrl(images, imgs)
  /\ UNCHANGED <<arg, ret, variant, phase, current, pairs, votes, justVoted, timers,
                 loads, rounds, sink>>

\* the Clear button: setImages([])
Clear ==
  /\ phase = "config"
  /\ images # <<>>
  /\ images' = <<>>
  /\ toast' = "none"
  /\ UNCHANGED <<arg, ret, variant, phase, current, pairs, votes, justVoted,
                 timers, loads, rounds, nextBlob, sink>>

\* the rounds input (second revision): setRounds(Math.max(1, Number(value)))
SetRounds ==
  /\ variant = "cap"
  /\ phase = "config"
  /\ \E r \in RoundsChoices : rounds' = (IF r < 1 THEN 1 ELSE r)
  /\ toast' = "none"
  /\ UNCHANGED <<arg, ret, variant, images, phase, current, pairs, votes,
                 justVoted, timers, loads, nextBlob, sink>>

(***************************************************************************)
(* Session start                                                           *)
(***************************************************************************)
\* the orders startArena can produce from commonIds
StartOrders(v, ids) == IF v = "timer" THEN shuffleArray(ids) ELSE sortRandom(ids)

\* a round limit that cuts one pair too many
PairCountOneShort(v, r, n) == IF v = "timer" THEN n ELSE Min(r, n) - 1

\* the number of pairs startArena builds: all of the order in the first
\* revision, Math.min(rounds, order.length) in the second
PairCount(v, r, n) == IF v = "timer" THEN n ELSE Min(r, n)

\* startArena, called with the models and images of the current render
StartArena ==
  /\ phase = "config"
  /\ LET ms == models(images)
     IN  IF Len(ms) < 2
         THEN /\ toast' = "error: need two models"
              /\ UNCHANGED <<arg, ret, variant, images, phase, current, pairs, votes,
                             justVoted, timers, loads, rounds, nextBlob, sink>>
         ELSE LET ids == commonIds(images, ms[1], ms[2])
              IN  IF ids = <<>>
                  THEN /\ toast' = "error: no matching pairs"
                       /\ UNCHANGED <<arg, ret, variant, images, phase, current, pairs, votes,
                                      justVoted, timers, loads, rounds, nextBlob, sink>>
                  ELSE /\ \E order \in StartOrders(variant, ids) :
                          \E flips \in [1..Len(ids) -> BOOLEAN] :
                            pairs' = SubSeq(newPairs(images, ms[1], ms[2], order, flips),
                                            1, PairCount(variant, rounds, Len(order)))
                       /\ votes' = <<>>
                       /\ current' = 0
                       /\ phase' = "playing"
                       /\ sink' = <<>>
                       /\ toast' = "none"
                       /\ UNCHANGED <<arg, ret, variant, images, justVoted, timers, loads,
                                      rounds, nextBlob>>

(***************************************************************************)
(* Voting                                                                  *)
(***************************************************************************)
Snapshot(img) == [name |-> img.name, model |-> img.model, id |-> img.id]

\* a round number that lags the cursor by one
RoundIsCursor(cur) == cur

\* the round number vote writes: current + 1
RoundOfCursor(cur) == cur + 1

\* the record vote pushes for the pair at the cursor
VoteRecord(pair, cur, choice) ==
  [round |-> RoundOfCursor(cur),
   left |-> Snapshot(pair.left),
   right |-> Snapshot(pair.right),
   choice |-> choice,
   winnerModel |-> IF choice = "left" THEN pair.left.model
                   ELSE IF choice = "right" THEN pair.right.model
                   ELSE Null]

\* winsByModel after the loop of finish: the counts under the keys m1 and
\* m2, and the other keys, which `undefined++` leaves as NaN
WinsCount(log, v, m) ==
  Cardinality({i \in 1..Len(log) :
                 /\ v = "cap" => log[i].choice \notin {"tie", "both"}
                 /\ Truthy(log[i].winnerModel)
                 /\ log[i].winnerModel = m})

winsByModel(log, v, ms) ==
  [count |-> [m \in {ms[1], ms[2]} |-> WinsCount(log, v, m)],
   nan |-> {log[i].winnerModel :
              i \in {j \in 1..Len(log) :
                       /\ v = "cap" => log[j].choice \notin {"tie", "both"}
                       /\ Truthy(log[j].winnerModel)
                       /\ log[j].winnerModel \notin {ms[1], ms[2]}}}]

ChoiceCount(log, c) == Cardinality({i \in 1..Len(log) : log[i].choice = c})

\* a winner computation that never reports a tie
winnerFirstOnTie(wins, m1, m2) ==
  IF wins.count[m1] >= wins.count[m2] THEN m1 ELSE m2

\* const winner = ... of finish; "tie" is the tie marker
winner(wins, m1, m2) ==
  IF wins.count[m1] = wins.count[m2] THEN TieMarker
  ELSE IF wins.count[m1] > wins.count[m2] THEN m1
  ELSE m2

\* the object finish hands to downloadJSON ({...result, winner}), without
\* its timestamp; ms and r are the models and rounds of the closure
ArenaResult(log, v, ms, r) ==
  LET wins == winsByModel(log, v, ms)
  IN  [models |-> ms,
       roundsPlanned |-> r,
       roundsCompleted |-> Len(log),
       winsByModel |-> wins,
       ties |-> IF v = "cap" THEN ChoiceCount(log, "tie") ELSE 0,
       bothBad |-> IF v = "cap" THEN ChoiceCount(log, "both") ELSE 0,
       votes |-> log,
       winner |-> winner(wins, ms[1], ms[2])]

\* what "New Session" leaves of the catalog: it only calls setPhase
ResetKeepsNothing(x) == <<>>

ResetKeeps(x) == x

\* vote of the first revision: push the record, show the tick, and advance
\* 300 ms later from a closure over next, pairs and (through finish) models
VoteTimer(choice) ==
  /\ current < Len(pairs)
  /\ Len(timers) < MaxTimers
  /\ votes' = Append(votes, VoteRecord(pairs[current + 1], current, choice))
  /\ justVoted' = choice
  /\ timers' = Append(timers, [next |-> current + 1, npairs |-> Len(pairs),
                               models |-> models(images)])
  /\ toast' = "none"
  /\ UNCHANGED <<arg, ret, variant, images, phase, current, pairs, loads, rounds,
                 nextBlob, sink>>

\* a click on "This one": the buttons are disabled while justVoted is set
ClickVote ==
  /\ variant = "timer"
  /\ phase = "playing"
  /\ justVoted = "null"
  /\ \E choice \in {"left", "right"} : VoteTimer(choice)

\* handleKeyDown: its closure is rebuilt whenever phase, current or pairs
\* change, so it reads their present values; it does not read justVoted
KeyDown ==
  /\ variant = "timer"
  /\ phase = "playing"
  /\ \E choice \in {"left", "right"} : VoteTimer(choice)

\* the setTimeout callback: timers of equal delay run in the order they
\* were set; each runs whatever the phase has become
TimerFires ==
  /\ timers # <<>>
  /\ LET t == Head(timers)
     IN  /\ timers' = Tail(timers)
         /\ justVoted' = "null"
         /\ IF t.next >= t.npairs
            THEN /\ sink' = Append(sink, ArenaResult(votes, variant, t.models, rounds))
                 /\ toast' = "success: result"
                 /\ phase' = "results"
                 /\ UNCHANGED current
            ELSE /\ current' = t.next
                 /\ toast' = "none"
                 /\ UNCHANGED <<sink, phase>>
  /\ UNCHANGED <<arg, ret, variant, images, pairs, votes, loads, rounds, nextBlob>>

\* vote of the second revision: push the record and advance or finish at
\* once; log and ms are votesRef.current after the push and the models memo
ClickVoteCap ==
  /\ variant = "cap"
  /\ phase = "playing"
  /\ current < Len(pairs)
  /\ \E choice \in {"left", "right", "tie", "both"} :
       \E log \in {Append(votes, VoteRecord(pairs[current + 1], current, choice))} :
       \E ms \in {models(images)} :
           /\ votes' = log
           /\ IF current + 1 >= Len(pairs)
              THEN /\ sink' = Append(sink, ArenaResult(log, variant, ms, rounds))
                   /\ toast' = "success: result"
                   /\ phase' = "results"
                   /\ UNCHANGED current
              ELSE /\ current' = current + 1
                   /\ toast' = "none"
                   /\ UNCHANGED <<sink, phase>>
  /\ UNCHANGED <<arg, ret, variant, images, pairs, justVoted, timers, loads, rounds,
                 nextBlob>>

\* "New Session": setPhase("config") and nothing else
Reset ==
  /\ phase = "results"
  /\ phase' = "config"
  /\ images' = ResetKeeps(images)
  /\ pairs' = ResetKeeps(pairs)
  /\ votes' = ResetKeeps(votes)
  /\ toast' = "none"
  /\ UNCHANGED <<arg, ret, variant, current, justVoted, timers, loads, rounds,
                 nextBlob, sink>>

Next ==
  \/ LoadClick
  \/ LoadFails
  \/ LoadFindsNothing
  \/ LoadSucceeds
  \/ OnFileChange
  \/ Clear
  \/ SetRounds
  \/ StartArena
  \/ ClickVote
  \/ KeyDown
  \/ TimerFires
  \/ ClickVoteCap
  \/ Reset

Spec == Init /\ [][Next]_vars

(***************************************************************************)
(* Properties                                                              *)
(***************************************************************************)
\* The ids the two models truly share: the intersection of their id sets
SharedIds(imgs, m1, m2) == MapKeys(imgs, m1) \cap MapKeys(imgs, m2)

\* C1: in every session the export sink is invoked at most once per start,
\* and only by a step that takes the phase from playing to results.
C1_ExportOncePerSession ==
  /\ [](Len(sink) <= 1)
  /\ [][Len(sink') > Len(sink) => (phase = "playing" /\ phase' = "results")]_vars

\* C2: the vote log is never longer than the pair list of the session, it
\* never shrinks while the phase stays playing, and a vote input arriving
\* when the last planned round already has a vote leaves the log unchanged.
C2_VoteLogBounded ==
  /\ [](phase \in {"playing", "results"} => Len(votes) <= Len(pairs))
  /\ [][(phase = "playing" /\ phase' = "playing") => Len(votes') >= Len(votes)]_vars
  /\ [][(phase = "playing" /\ \E k \in 1..Len(votes) : votes[k].round = Len(pairs))
          => votes' = votes]_vars

\* C3: no round is voted twice, so the k-th entry of the vote log has round
\* k, and the export of a session of N pairs reports roundsCompleted = N.
C3_OneVotePerRound ==
  /\ \A k \in 1..Len(votes) : votes[k].round = k
  /\ \A i \in 1..Len(sink) : sink[i].roundsCompleted = Len(pairs)

\* C4: the phase starts as config and only ever changes config -> playing,
\* playing -> results or results -> config.
C4_PhaseTransitions ==
  /\ phase = "config"
  /\ [][phase' # phase =>
          <<phase, phase'>> \in {<<"config", "playing">>, <<"playing", "results">>,
                                <<"results", "config">>}]_vars

C6_FailedStartChangesNothing ==
  /\ [][(phase = "config" /\ phase' = "playing")
          => (Len(models(images)) >= 2 /\
              SharedIds(images, models(images)[1], models(images)[2]) # {})]_vars
  /\ [][(toast' \in {"error: need two models", "error: no matching pairs"})
          => (phase' = "config" /\ UNCHANGED <<images, pairs, current, votes>>)]_vars

\* C7: while the phase is playing or results no step changes the catalog.
C7_CatalogFrozen ==
  [][(phase \in {"playing", "results"}) => images' = images]_vars

\* a step of startArena that starts a session
StartStep == phase = "config" /\ phase' = "playing"

PairsAcrossModels ==
  \A k \in 1..Len(pairs') :
    /\ pairs'[k].left.model # pairs'[k].right.model
    /\ {pairs'[k].left.model, pairs'[k].right.model}
         = {models(images)[1], models(images)[2]}
    /\ pairs'[k].left.id = pairs'[k].right.id

\* C8: every pair built at session start has one image of each of the two
\* detected models, and its two images have the same id.
C8_PairsAcrossModels == [][StartStep => PairsAcrossModels]_vars

PairsAreIntersection ==
  LET shared == SharedIds(images, models(images)[1], models(images)[2])
      ids == [k \in 1..Len(pairs') |-> pairs'[k].left.id]
  IN  /\ \A k \in 1..Len(pairs') :
           pairs'[k].left.id \in shared /\ pairs'[k].right.id \in shared
      /\ \A j, k \in 1..Len(pairs') : ids[j] = ids[k] => j = k
      /\ Len(pairs') = (IF variant = "timer" THEN Cardinality(shared)
                        ELSE Min(rounds, Cardinality(shared)))

\* C9: the ids of the pairs built at session start are ids shared by the two
\* models, each in exactly one pair; the first revision pairs all of them,
\* the second the first min(rounds, number shared) of the order.
C9_PairsAreIntersection == [][StartStep => PairsAreIntersection]_vars

\* C10: in every exported result the two models' win counts, the ties and
\* the both-bad count add up to roundsCompleted, which is the length of the
\* exported vote log.
C10_TallyAddsUp ==
  \A i \in 1..Len(sink) :
    /\ sink[i].winsByModel.count[sink[i].models[1]]
         + sink[i].winsByModel.count[sink[i].models[2]]
         + sink[i].ties + sink[i].bothBad = sink[i].roundsCompleted
    /\ sink[i].roundsCompleted = Len(sink[i].votes)

\* the votes of an exported log whose winnerModel is m
WinVotes(r, m) == Cardinality({k \in 1..Len(r.votes) : r.votes[k].winnerModel = m})

\* C11: the exported winner is the model whose votes in the exported log
\* are strictly more numerous, and the tie marker when the two models have
\* equally many, 0 and 0 included.
C11_WinnerIsHigherCount ==
  \A i \in 1..Len(sink) :
    LET r == sink[i]
        c1 == WinVotes(r, r.models[1])
        c2 == WinVotes(r, r.models[2])
    IN  /\ c1 = c2 => r.winner = TieMarker
        /\ c1 > c2 => r.winner = r.models[1]
        /\ c1 < c2 => r.winner = r.models[2]

\* a result was exported for a non-empty log in which neither model has a
\* vote: the winner is the tie marker
C11_Witness ==
  \E i \in 1..Len(sink) :
    /\ sink[i].votes # <<>>
    /\ WinVotes(sink[i], sink[i].models[1]) = 0
    /\ WinVotes(sink[i], sink[i].models[2]) = 0
    /\ sink[i].winner = TieMarker

\* C12: in every exported result each logged vote is counted in exactly one
\* bucket: a left / right vote in the win count of its winnerModel, which
\* is one of the two exported models, a tie vote in ties, a both-bad vote
\* in bothBad; no other bucket exists, and tie / both-bad votes have no
\* winnerModel.
C12_EachVoteInOneBucket ==
  \A i \in 1..Len(sink) :
    LET r == sink[i]
        log == r.votes
        sided == {k \in 1..Len(log) : log[k].choice \in {"left", "right"}}
    IN  /\ \A k \in sided : log[k].winnerModel \in {r.models[1], r.models[2]}
        /\ \A m \in {r.models[1], r.models[2]} :
             r.winsByModel.count[m]
               = Cardinality({k \in sided : log[k].winnerModel = m})
        /\ r.winsByModel.nan = {}
        /\ r.ties = Cardinality({k \in 1..Len(log) : log[k].choice = "tie"})
        /\ r.bothBad = Cardinality({k \in 1..Len(log) : log[k].choice = "both"})
        /\ \A k \in 1..Len(log) :
             log[k].choice \in {"tie", "both"} => log[k].winnerModel = Null

\* a step that appends one record to the vote log
VoteStep == Len(votes') = Len(votes) + 1

VoteIsSnapshot ==
  LET v == votes'[Len(votes')]
      pair == pairs[current + 1]
  IN  /\ current < Len(pairs)
      /\ SubSeq(votes', 1, Len(votes)) = votes
      /\ v.round = current + 1
      /\ v.left = [name |-> pair.left.name, model |-> pair.left.model,
                   id |-> pair.left.id]
      /\ v.right = [name |-> pair.right.name, model |-> pair.right.model,
                    id |-> pair.right.id]
      /\ v.choice = "left" => v.winnerModel = pair.left.model
      /\ v.choice = "right" => v.winnerModel = pair.right.model

\* C13: every record appended to the vote log is a snapshot of the pair at
\* the cursor when the vote is cast: its round is the cursor plus one, its
\* left and right are the name, model and id of that pair's images, and
\* its winnerModel is the model of the image on the chosen side.
C13_VoteIsSnapshot == [][VoteStep => VoteIsSnapshot]_vars

\* a vote for the right-hand image was recorded after the cursor advanced
C13_Witness ==
  \E k \in 1..Len(votes) :
    /\ votes[k].round = 2
    /\ votes[k].choice = "right"
    /\ votes[k].winnerModel = votes[k].right.model
    /\ pairs[2].right.name = votes[k].right.name

\* The voter keeps voting whenever a vote button is enabled, and every
\* scheduled round-advance callback eventually runs.
LiveSpec ==
  /\ Init
  /\ [][Next]_vars
  /\ WF_vars(ClickVote)
  /\ WF_vars(ClickVoteCap)
  /\ WF_vars(TimerFires)

\* every playing session eventually shows its results and has exported
SessionCompletes == (phase = "playing") ~> (phase = "results" /\ sink # <<>>)

\* while playing the cursor moves one round at a time
CursorStepsByOne ==
  [][(phase = "playing" /\ phase' = "playing" /\ current' # current)
       => current' = current + 1]_vars

\* the phase leaves playing only for results, and only when the vote for
\* the last planned round is in the log
PlayingUntilLastVote ==
  [][(phase = "playing" /\ phase' # "playing")
       => (phase' = "results" /\
           \E k \in 1..Len(votes') : votes'[k].round = Len(pairs))]_vars

\* C14: if the voter keeps voting and every scheduled round-advance runs, a
\* session of N >= 1 pairs advances its cursor round by round, eventually
\* reaches results and exports, and stays in playing until the vote for
\* round N has been cast.
C14_SessionCompletes ==
  /\ SessionCompletes
  /\ CursorStepsByOne
  /\ PlayingUntilLastVote

(***************************************************************************)
(* mergeUniqueByUrl called directly: a catalog that grows by arbitrary     *)
(* batches, two entries of which may carry the same locator                *)
(***************************************************************************)
\* longest batch handed to mergeUniqueByUrl
MaxBatch == 2

\* the entries batches are made of: each of three locators with either of
\* two files behind it
CatalogEntries ==
  {LoadedImage("timer", name, url, "upload") :
     name \in {<<"a", "_", "2", ".", "p">>, <<"b", "_", "2", ".", "p">>},
     url \in {BlobUrl(1), BlobUrl(2), PublicUrl(<<"a", "_", "0", "1", ".", "p">>)}}

Batches == UNION {[1..n -> CatalogEntries] : n \in 0..MaxBatch}

CatalogInit == Init /\ variant = "timer"

\* setImages((prev) => mergeUniqueByUrl(prev, batch)); arg is the batch
AddBatch ==
  /\ \E batch \in Batches :
       /\ images' = mergeUniqueByUrl(images, batch)
       /\ arg' = batch
  /\ UNCHANGED <<ret, variant, phase, current, pairs, votes, justVoted, timers,
                 loads, rounds, nextBlob, toast, sink>>

CatalogNext == AddBatch

CatalogSpec == CatalogInit /\ [][CatalogNext]_vars

NoSharedLocator ==
  \A i, j \in 1..Len(images) : images[i].url = images[j].url => i = j

\* C15: whatever batches are added, no two entries of the catalog have the
\* same url, and an add leaves the entries already there in place: the old
\* catalog is a prefix of the new one.
C15_CatalogUniqueAppendOnly ==
  /\ []NoSharedLocator
  /\ [][/\ Len(images') >= Len(images)
        /\ SubSeq(images', 1, Len(images)) = images]_vars

\* a batch holding one locator twice, with two different files, was added:
\* the catalog has the first of the two and not the second
C15_Witness ==
  /\ Len(arg) = 2
  /\ arg[1].url = arg[2].url
  /\ arg[1] # arg[2]
  /\ Len(images) >= 2
  /\ \E i \in 1..Len(images) : images[i] = arg[1]
  /\ \A i \in 1..Len(images) : images[i] # arg[2]

\* the number of distinct model labels met in the catalog before the first
\* image of model m
ModelRank(imgs, m) ==
  LET first == CHOOSE i \in 1..Len(imgs) :
                 imgs[i].model = m /\ \A j \in 1..(i - 1) : imgs[j].model # m
  IN  Cardinality({imgs[j].model : j \in 1..(first - 1)})

ModelLabels(imgs) == {imgs[i].model : i \in 1..Len(imgs)}

\* the first two distinct labels in insertion order, and the later ones
FirstTwoModels(imgs) == {m \in ModelLabels(imgs) : ModelRank(imgs, m) < 2}

LaterModels(imgs) == ModelLabels(imgs) \ FirstTwoModels(imgs)

PairsOfFirstTwoModels ==
  \A k \in 1..Len(pairs') :
    /\ \A side \in {pairs'[k].left, pairs'[k].right} :
         /\ side.model \notin LaterModels(images)
         /\ (\E i \in 1..Len(images) : images[i] = side)
              => side.model \in FirstTwoModels(images)
    /\ \E side \in {pairs'[k].left, pairs'[k].right} :
         side.model \in FirstTwoModels(images) /\ ModelRank(images, side.model) = 0

VoteOfFirstTwoModels ==
  LET v == votes'[Len(votes')]
  IN  {v.left.model, v.right.model, v.winnerModel} \cap LaterModels(images) = {}

\* C16: a session compares the first two distinct model labels of the
\* catalog in insertion order, however many images each model has: every
\* catalog image in a pair built at start is of one of these two, one side
\* is of the very first, and no image of a later model is in a pair or in
\* a recorded vote.
C16_FirstTwoModels ==
  /\ [][StartStep => PairsOfFirstTwoModels]_vars
  /\ [][VoteStep => VoteOfFirstTwoModels]_vars

\* a vote was cast in a session started on a catalog of three models, the
\* third brought by the upload that came last
C16_Witness ==
  /\ phase = "playing"
  /\ votes # <<>>
  /\ LaterModels(images) # {}
  /\ images[Len(images)].source = "upload"
  /\ \A k \in 1..Len(pairs) :
       {pairs[k].left.model, pairs[k].right.model} = FirstTwoModels(images)

\* C17: for the catalog and any two batches, adding the first then the
\* second gives the same catalog as adding the second then the first.
C17_AddCommutes ==
  \A A, B \in Batches :
    mergeUniqueByUrl(mergeUniqueByUrl(images, A), B)
      = mergeUniqueByUrl(mergeUniqueByUrl(images, B), A)

(***************************************************************************)
(* The filename parser and the identifier normalizer called directly on    *)
(* every string of up to MaxLen characters of Alphabet                     *)
(***************************************************************************)
MaxLen == 4

Alphabet == {"a", "0", "1", "_", "-", ".", " "}

Strings == UNION {[1..n -> Alphabet] : n \in 1..MaxLen}

ParserInit ==
  /\ variant \in {"timer", "cap"}
  /\ arg \in Strings
  /\ ret = NoCall
  /\ images = <<>>
  /\ phase = "config"
  /\ current = 0
  /\ pairs = <<>>
  /\ votes = <<>>
  /\ justVoted = "null"
  /\ timers = <<>>
  /\ loads = 0
  /\ rounds = DefaultRounds
  /\ nextBlob = 0
  /\ toast = "none"
  /\ sink = <<>>

\* const model = parseModelPrefix(name); const id = parseIdSuffix(name, model)
CallParse ==
  /\ ret' = [fn |-> "parse", value |-> ParseName(variant, arg)]
  /\ UNCHANGED <<arg, variant, images, phase, current, pairs, votes, justVoted,
                 timers, loads, rounds, nextBlob, toast, sink>>

\* normalizeId(arg); the second revision has no normalizer
CallNormalizeId ==
  /\ variant = "timer"
  /\ ret' = [fn |-> "normalizeId", value |-> normalizeId(arg)]
  /\ UNCHANGED <<arg, variant, images, phase, current, pairs, votes, justVoted,
                 timers, loads, rounds, nextBlob, toast, sink>>

ParserNext ==
  \/ CallParse
  \/ CallNormalizeId

ParserSpec == ParserInit /\ [][ParserNext]_vars

\* the base name of a filename has a "_" or a "-"
HasSeparator(name) == FirstSeparator(StripExtension(name)) >= 0

\* C18: for a filename whose base name has a "_" or "-", the parsed model
\* is the part of the base name before the first separator and the parsed
\* id is the normalized part after it.
C18_ParseSplitsAtFirstSeparator ==
  (ret.fn = "parse" /\ HasSeparator(arg)) =>
    LET base == StripExtension(arg)
        idx == FirstSeparator(base)
    IN  /\ ret.value.model = Slice(base, 0, idx)
        /\ ret.value.id = normalizeId(SliceFrom(base, idx + 1))

NoSeparator(name) == ~HasSeparator(name)

\* the image onFileChange builds for the n-th file picked
FileImage(v, name, n) ==
  [url |-> BlobUrl(n), model |-> ParseName(v, name).model, name |-> name,
   id |-> ParseName(v, name).id, source |-> "upload"]

\* startArena passes both of its checks on this catalog
CanStart(imgs) ==
  /\ Len(models(imgs)) = 2
  /\ commonIds(imgs, models(imgs)[1], models(imgs)[2]) # <<>>

\* C19 as stated: a filename with no separator gets the same model label
\* as every other filename with no separator, and a catalog of two such
\* files cannot start a session.
C19_NoSeparatorOneBucket ==
  (ret.fn = "parse" /\ NoSeparator(arg)) =>
    \A other \in Strings :
      NoSeparator(other) =>
        /\ ParseName(variant, other).model = ret.value.model
        /\ ~CanStart(<<FileImage(variant, arg, 1), FileImage(variant, other, 2)>>)

\* C19 as amended: a filename with no separator gets its whole base name
\* as model label, and the label "model" only when the base name is empty.
C19_NoSeparatorModelIsBaseName ==
  (ret.fn = "parse" /\ NoSeparator(arg)) =>
    ret.value.model = (IF StripExtension(arg) = <<>> THEN ModelLabel
                       ELSE StripExtension(arg))

\* an all-digit filename with no separator was parsed to a label of its
\* own, and with another separator-less filename of a different label it
\* makes a catalog on which a session starts
C19_Witness ==
  /\ variant = "timer"
  /\ ret.fn = "parse"
  /\ NoSeparator(arg)
  /\ ret.value.model = StripExtension(arg)
  /\ IsDigits(arg)
  /\ \E other \in Strings :
       /\ NoSeparator(other)
       /\ ParseName(variant, other).model # ret.value.model
       /\ CanStart(<<FileImage(variant, arg, 1), FileImage(variant, other, 2)>>)

\* C20: normalizeId applied to its own result returns that result.
C20_NormalizeIdempotent ==
  ret.fn = "normalizeId" => normalizeId(ret.value) = ret.value

\* normalizeId was called on a string with leading separators and zeros
\* and returned the bare number
C20_Witness ==
  /\ ret.fn = "normalizeId"
  /\ Len(arg) = MaxLen
  /\ arg[1] \in SepClass
  /\ \E i \in 1..Len(arg) : arg[i] = "0"
  /\ ret.value = <<"1">>

\* what is left of s between its leading run of separator / whitespace
\* characters and its trailing whitespace
Core(s) ==
  LET solid == {i \in 1..Len(s) : s[i] \notin SepClass}
      inked == {i \in 1..Len(s) : s[i] \notin Whitespace}
  IN  IF solid = {} THEN <<>>
      ELSE SubSeq(s, CHOOSE i \in solid : \A j \in solid : i <= j,
                     CHOOSE i \in inked : \A j \in inked : j <= i)

\* d is the digit string s without its leading zeros, "0" if s is all zeros
IsZeroStripped(d, s) ==
  /\ IsDigits(d)
  /\ d = <<"0">> \/ d[1] # "0"
  /\ \E k \in 0..(Len(s) - 1) :
       /\ \A i \in 1..k : s[i] = "0"
       /\ SubSeq(s, k + 1, Len(s)) = d

\* C21: normalizeId returns its argument without the surrounding whitespace
\* and the leading separators; if that is all digits, without the leading
\* zeros ("0" for all zeros, "7" for "007"), otherwise as it is, case kept
\* ("A-01" stays); so one more leading zero on a number, or one more
\* leading separator, gives the same id.
C21_NormalizeCleans ==
  /\ normalizeId(<<"0", "0", "7">>) = <<"7">>
  /\ normalizeId(<<"0", "0", "0">>) = <<"0">>
  /\ normalizeId(<<"A", "-", "0", "1">>) = <<"A", "-", "0", "1">>
  /\ ret.fn = "normalizeId" =>
       /\ IsDigits(Core(arg)) => IsZeroStripped(ret.value, Core(arg))
       /\ ~IsDigits(Core(arg)) => ret.value = Core(arg)
       /\ IsDigits(arg) => normalizeId(<<"0">> \o arg) = ret.value
       /\ \A c \in SepClass : normalizeId(<<c>> \o arg) = ret.value

\* normalizeId was called on a number with a leading separator, a leading
\* zero and a trailing blank
C21_Witness ==
  /\ ret.fn = "normalizeId"
  /\ arg = <<"_", "0", "1", " ">>
  /\ ret.value = <<"1">>

\* C22: the pair list changes only in a step that starts a session, so no
\* vote, timer, catalog event or reset touches it between two starts; and
\* while the phase is results the vote log does not change.
C22_PairsFixedOnceStarted ==
  /\ [][pairs' # pairs => StartStep]_vars
  /\ [][(phase = "results") => votes' = votes]_vars

\* a session of two pairs was voted through, exported and reset: the pairs
\* and the log are those of the session
C22_Witness ==
  /\ phase = "config"
  /\ Len(pairs) = 2
  /\ Len(votes) = 2
  /\ sink # <<>>
  /\ \A k \in 1..2 : votes[k].round = k /\ votes[k].left.name = pairs[k].left.name

\* a step in which a public-folder load ends without loading anything
LoadFailureStep == loads' < loads /\ toast' # "success: loaded public images"

\* C23: a public-folder load that fails is reported by a toast and changes
\* neither the phase nor the catalog, nor anything else of the session.
C23_LoadFailureReported ==
  [][LoadFailureStep =>
       /\ toast' # "none"
       /\ UNCHANGED <<phase, images, pairs, current, votes>>]_vars


\* ---------------------------------------------------------------------
\* The instruction table (parseInstructionsCSV)

LF == "\n"

CR == "\r"

Quote == "\""

ProtoKey == <<"_", "_", "p", "r", "o", "t", "o", "_", "_">>

\* text.split(/\r?\n/)
RECURSIVE SplitLines(_)
SplitLines(text) ==
  LET nl == indexOf(text, LF) IN
    IF nl < 0 THEN <<text>>
    ELSE LET upto == Slice(text, 0, nl)
             line == IF upto # <<>> /\ upto[Len(upto)] = CR
                     THEN Slice(upto, 0, nl - 1) ELSE upto
         IN <<line>> \o SplitLines(SliceFrom(text, nl + 1))

\* .filter((l) => l.trim().length > 0)
NonBlank(ls) == SelectSeq(ls, LAMBDA l : Len(Trim(l)) > 0)

\* (s.match(/c/g) || []).length
CountChar(s, c) == Cardinality({i \in 1..Len(s) : s[i] = c})

\* the delimiter chosen from the first line
Delimiter(first) == IF CountChar(first, ";") >= CountChar(first, ",") THEN ";" ELSE ","

\* s.replace(/^\"|\"$/g, "")
Unquote(s) ==
  LET a == IF s # <<>> /\ Head(s) = Quote THEN Tail(s) ELSE s
  IN IF a # <<>> /\ a[Len(a)] = Quote THEN SubSeq(a, 1, Len(a) - 1) ELSE a

\* map[key] = value on a plain object ({}): assigning a string to __proto__
\* is ignored by the accessor inherited from Object.prototype and creates no
\* key; any other key becomes (or stays) an own key with the new value
MapSet(map, key, value) ==
  IF key = ProtoKey THEN map
  ELSE [k \in (DOMAIN map) \cup {key} |-> IF k = key THEN value ELSE map[k]]

\* the id and instruction fields of a line that contains the delimiter
RowId(line, delim) == Unquote(Trim(Slice(line, 0, indexOf(line, delim))))

RowInstruction(line, delim) == Unquote(Trim(SliceFrom(line, indexOf(line, delim) + 1)))

\* the body of the for loop, from line i (0-based) on
RECURSIVE RegisterRows(_, _, _, _)
RegisterRows(lines, delim, i, map) ==
  IF i >= Len(lines) THEN map
  ELSE LET line == lines[i + 1]
           idx == indexOf(line, delim)
       IN IF idx < 0 THEN RegisterRows(lines, delim, i + 1, map)
          ELSE LET id == RowId(line, delim)
                   instruction == RowInstruction(line, delim)
               IN IF i = 0 /\ toLowerCase(id) = <<"i", "d">>
                  THEN RegisterRows(lines, delim, i + 1, map)
                  ELSE IF id = <<>>
                  THEN RegisterRows(lines, delim, i + 1, map)
                  ELSE RegisterRows(lines, delim, i + 1,
                         MapSet(MapSet(map, id, instruction), normalizeId(id), instruction))

parseInstructionsCSV(text) ==
  LET lines == NonBlank(SplitLines(text)) IN
    IF Len(lines) = 0 THEN <<>>
    ELSE RegisterRows(lines, Delimiter(lines[1]), 0, <<>>)

\* instructionsById[id]: the own value, else what the object inherits
InstructionLookup(map, id) ==
  IF id \in DOMAIN map THEN map[id]
  ELSE IF id = ProtoKey \/ id \in ObjectPrototypeKeys THEN <<"[object]">>
  ELSE Undefined

\* the lines a table is written from
MaxLines == 3

CsvLines ==
  { <<"i", "d", ";", "t">>,
    <<"I", "D", ",", "t">>,
    <<"i", "d", ",", "t", ";", "u">>,
    <<"0", "0", "7", ";", "a">>,
    <<"7", ";", "b">>,
    <<" ", "\"", "0", "1", "\"", " ", ";", "\"", "c", "\"">>,
    <<"a", "-", "1", ",", "x">>,
    <<"7", ",", "d">>,
    <<"_", "_", "p", "r", "o", "t", "o", "_", "_", ";", "p">>,
    <<"x">>,
    <<";", "e">>,
    <<" ">> }

RECURSIVE JoinLines(_, _)
JoinLines(ls, eol) ==
  IF ls = <<>> THEN <<>>
  ELSE IF Len(ls) = 1 THEN ls[1]
  ELSE ls[1] \o eol \o JoinLines(Tail(ls), eol)

CsvTexts ==
  { JoinLines(ls, eol) :
      ls \in UNION {[1..n -> CsvLines] : n \in 1..MaxLines},
      eol \in {<<LF>>, <<CR, LF>>} }

CsvInit ==
  /\ variant = "timer"
  /\ arg \in CsvTexts
  /\ ret = NoCall
  /\ images = <<>>
  /\ phase = "config"
  /\ current = 0
  /\ pairs = <<>>
  /\ votes = <<>>
  /\ justVoted = "null"
  /\ timers = <<>>
  /\ loads = 0
  /\ rounds = DefaultRounds
  /\ nextBlob = 0
  /\ toast = "none"
  /\ sink = <<>>

CallParseInstructionsCSV ==
  /\ ret.fn = "none"
  /\ ret' = [fn |-> "parseInstructionsCSV", value |-> parseInstructionsCSV(arg)]
  /\ UNCHANGED <<arg, variant, images, phase, current, pairs, votes, justVoted,
                 timers, loads, rounds, nextBlob, toast, sink>>

CsvNext == CallParseInstructionsCSV

CsvSpec == CsvInit /\ [][CsvNext]_vars

\* the rows of a table, read as the claim reads it: the lines after a header
\* whose first field is "id", split at the first delimiter, ";" when the
\* first line has at least as many ";" as ","
DataRows(text) ==
  LET lines == NonBlank(SplitLines(text))
      delim == IF CountChar(lines[1], ";") >= CountChar(lines[1], ",") THEN ";" ELSE ","
  IN { [id |-> RowId(lines[i], delim), text |-> RowInstruction(lines[i], delim)] :
         i \in { j \in 1..Len(lines) :
                   /\ indexOf(lines[j], delim) >= 0
                   /\ RowId(lines[j], delim) # <<>>
                   /\ ~(j = 1 /\ toLowerCase(RowId(lines[j], delim)) = <<"i", "d">>) } }

\* a lookup by key finds the text of a row whose id normalizes as key does
LookupSucceeds(map, rows, key) ==
  \E r \in rows : /\ normalizeId(r.id) = normalizeId(key)
                  /\ InstructionLookup(map, key) = r.text

\* C24: every data row of an instruction table is found by its raw id and by
\* its normalized id.
C24_RowsRegisteredTwice ==
  ret.fn = "parseInstructionsCSV" =>
    \A r \in DataRows(arg) :
      /\ LookupSucceeds(ret.value, DataRows(arg), r.id)
      /\ LookupSucceeds(ret.value, DataRows(arg), normalizeId(r.id))


\* the rearrangements of a sequence of distinct elements
Rearrangements(items) ==
  {p \in [1..Len(items) -> {items[i] : i \in 1..Len(items)}] :
     \A i, j \in 1..Len(items) : p[i] = p[j] => i = j}

\* the ids startArena matches in the current catalog, <<>> if it would refuse
MatchedIds ==
  IF Len(models(images)) < 2 THEN <<>>
  ELSE commonIds(images, models(images)[1], models(images)[2])

\* the pair list startArena builds for an order and a choice of sides
PairsFor(order, flips) ==
  SubSeq(newPairs(images, models(images)[1], models(images)[2], order, flips),
         1, PairCount(variant, rounds, Len(order)))

StartedInSomePermutation ==
  \E order \in Rearrangements(MatchedIds) :
    \E flips \in [1..Len(order) -> BOOLEAN] : pairs' = PairsFor(order, flips)

\* the orders a start can draw are all the rearrangements of the matched ids
EveryPermutationCanStart ==
  Rearrangements(MatchedIds) \subseteq StartOrders(variant, MatchedIds)

\* shuffleArray returns exactly the rearrangements of its input
ShufflePermutes(items) == shuffleArray(items) = Rearrangements(items)

\* C25: the orders shuffleArray can return are the rearrangements of its
\* input, all of them and nothing else; a session starts with the matched ids
\* in one of their permutations (cut to the round limit in the second
\* revision), and every permutation is an order a start can draw.
C25_OrderIsAnyPermutation ==
  /\ [](ShufflePermutes(MatchedIds) /\ ShufflePermutes(<<"x", "y", "z">>))
  /\ [][StartStep => StartedInSomePermutation]_vars
  /\ []EveryPermutationCanStart

\* a session of two pairs that starts in the reverse of the matched order,
\* with the second model on the left of the first pair
C25_Witness ==
  /\ phase = "playing" /\ current = 0 /\ Len(pairs) = 2 /\ variant = "timer"
  /\ pairs[1].left.model = models(images)[2]
  /\ pairs[1].left.id = MatchedIds[2] /\ pairs[2].left.id = MatchedIds[1]


\* a step in which a round-advance timer runs
TimerStep == timers # <<>> /\ timers' = Tail(timers)

\* C26: a round-advance timer that runs when the phase is not playing
\* neither exports a result, nor moves the cursor, nor changes the phase.
C26_TimerOnlyActsWhilePlaying ==
  [][(TimerStep /\ phase # "playing")
       => (sink' = sink /\ current' = current /\ phase' = phase)]_vars


Exported == sink'[Len(sink')]

\* C28: every exported result has roundsPlanned equal to the number of pairs
\* of its session and roundsCompleted not above roundsPlanned.
C28_RoundsPlannedIsPairCount ==
  [][Len(sink') > Len(sink)
       => (Exported.roundsPlanned = Len(pairs)
           /\ Exported.roundsCompleted <= Exported.roundsPlanned)]_vars


\* img is the entry of the catalog inserted last among those of its model and id
LastOfItsId(img) ==
  \E i \in 1..Len(images) :
    /\ images[i] = img
    /\ \A j \in 1..Len(images) :
         (images[j].model = img.model /\ images[j].id = img.id) => j <= i

PairsUseLastInserted ==
  /\ \A k \in 1..Len(pairs') :
       LastOfItsId(pairs'[k].left) /\ LastOfItsId(pairs'[k].right)
  /\ \A j, k \in 1..Len(pairs') :
       (pairs'[j].left.id = pairs'[k].left.id \/ pairs'[j].right.id = pairs'[k].right.id)
         => j = k

\* C29: the two images of every pair built at session start are entries of
\* the catalog, each the last inserted of its model and id, and no id is in
\* two pairs.
C29_LastInsertedWins == [][StartStep => PairsUseLastInserted]_vars

=============================================================================
